---- MODULE Spec2Model ----
(***************************************************************************)
(* Model of the trading bot of src/bot.py (baseline variant) and           *)
(* src/main.py (advanced variant): the retrying API wrapper safe_api_call, *)
(* the signal engine, the trailing stop-loss, order sizing and the         *)
(* per-symbol trade handler.                                               *)
(*                                                                         *)
(* Number representation.  Prices are integers counted in hundredths of a  *)
(* quote unit (100.00 USDT is 10000) where they are inputs; the handlers   *)
(* and the backtest turn them into the nearest binary64 and compute the    *)
(* stop-loss price, the quantity and the balance as Python floats.         *)
(* Percentages are integers in hundredths (0.05 is 5).                     *)
(***************************************************************************)
EXTENDS Integers, Sequences, FiniteSets, TLC

VARIABLES
    variant,\* "baseline" (bot.py) or "advanced" (main.py): which program runs
    inv,    \* the activation record of one safe_api_call
    acct,   \* the venue's account for the symbol: holdings, own trades, USDT
    cyc,    \* the locals of the last execute_trades / execute_advanced_trades
    sig,    \* a candle series and the columns the signal engine derived
    siz,    \* one call of calculate_trade_qty (main.py): inputs and result
    bt,     \* one run of backtest_sma_strategy (bot.py): series and locals
    orch    \* main's loop: the venue's symbols and market, main's locals

vars == <<variant, inv, acct, cyc, sig, siz, bt, orch>>

\* NaN is an integer no price, quantity or transition of the model equals, so
\* that x = NaN is decidable; Lt and Gt are Python's comparisons.
NaN == 0 - 1000000
None == "None"
IsNaN(x) == x = NaN
Lt(a, b) == ~IsNaN(a) /\ ~IsNaN(b) /\ a < b
Gt(a, b) == ~IsNaN(a) /\ ~IsNaN(b) /\ a > b
Max(a, b) == IF b > a THEN b ELSE a

(***************************************************************************)
(* Bounds of the model.                                                    *)
(***************************************************************************)
MaxRetriesArg == 6      \* max_retries is drawn from 0..MaxRetriesArg
MaxFails == 7           \* the operation fails its first 0..MaxFails calls
ExtraLen == 50          \* the longest series has SMA_LONG + ExtraLen candles
MaxCycles == 2          \* handler evaluations (cycles) in one behaviour
MaxQty == 20            \* a sizing call asks for at most MaxQty whole units
MaxIterations == 3      \* passes of main's `while True` in one behaviour

(***************************************************************************)
(* Program constants.                                                      *)
(***************************************************************************)
DEFAULT_MAX_RETRIES == 5
DEFAULT_DELAY == 60
STOP_LOSS_PERCENTAGE == 5               \* 0.05, in hundredths
TRAILING_STOP_LOSS_BUFFER == 1          \* bot.py: 0.01, in hundredths
TRAILING_STOP_LOSS_BUFFER_BASE == 1     \* main.py: 0.01, in hundredths
TRADE_PERCENTAGE == 1                   \* bot.py: 0.01, in hundredths
FIXED_TRADE_AMOUNT == 10                \* main.py: quote units per buy
SMA_SHORT == 50
SMA_LONG == 200
RSI_THRESHOLD_BUY == 30
RSI_THRESHOLD_SELL == 70

(***************************************************************************)
(* safe_api_call (bot.py 22-34, main.py 40-52; the two are the same).      *)
(*                                                                         *)
(* The wrapped operation is a script: it raises on its first `fails` calls *)
(* and returns `value` on every later one; always = TRUE is the operation  *)
(* that raises on every call.                                              *)
(***************************************************************************)
OpRaises(s) == s.always \/ s.calls < s.fails

InvokerStart(max_retries, delay, fails, always, value) ==
    [max_retries |-> max_retries, delay |-> delay,
     fails |-> fails, always |-> always, value |-> value,
     retries |-> 0, calls |-> 0, sleeps |-> 0, slept |-> 0,
     pc |-> "loop", result |-> None, exc_retries |-> 0]

\* One pass of the while loop, or the raise after it.
InvokerStepSleepInFinally(s) ==
    IF s.retries < s.max_retries
    THEN IF OpRaises(s)
         THEN [s EXCEPT !.calls = @ + 1, !.retries = @ + 1,
                        !.sleeps = @ + 1, !.slept = @ + s.delay]
         ELSE [s EXCEPT !.calls = @ + 1, !.sleeps = @ + 1,
                        !.slept = @ + s.delay,
                        !.pc = "returned", !.result = s.value]
    ELSE [s EXCEPT !.pc = "raised", !.exc_retries = s.max_retries]

InvokerStepOffByOne(s) ==
    IF s.retries <= s.max_retries
    THEN IF OpRaises(s)
         THEN [s EXCEPT !.calls = @ + 1, !.retries = @ + 1,
                        !.sleeps = @ + 1, !.slept = @ + s.delay]
         ELSE [s EXCEPT !.calls = @ + 1,
                        !.pc = "returned", !.result = s.value]
    ELSE [s EXCEPT !.pc = "raised", !.exc_retries = s.max_retries]

InvokerStep(s) ==
    IF s.retries < s.max_retries
    THEN IF OpRaises(s)
         THEN \* except: retries += 1; time.sleep(delay)
              [s EXCEPT !.calls = @ + 1, !.retries = @ + 1,
                        !.sleeps = @ + 1, !.slept = @ + s.delay]
         ELSE \* return call(*args, **kwargs)
              [s EXCEPT !.calls = @ + 1,
                        !.pc = "returned", !.result = s.value]
    ELSE \* raise Exception(f"... {max_retries} intentos.")
         [s EXCEPT !.pc = "raised", !.exc_retries = s.max_retries]

RECURSIVE InvokerRun(_)
InvokerRun(s) == IF s.pc = "loop" THEN InvokerRun(InvokerStep(s)) ELSE s

\* A whole call with the default max_retries and delay: the final record.
safe_api_call(fails, always, value) ==
    InvokerRun(InvokerStart(DEFAULT_MAX_RETRIES, DEFAULT_DELAY, fails, always, value))

(***************************************************************************)
(* Quantities are exact fractions <<numerator, denominator>> in lowest     *)
(* terms: the baseline passes balance * percentage / price to the venue    *)
(* unrounded.                                                              *)
(***************************************************************************)
RECURSIVE GCD(_, _)
GCD(a, b) == IF b = 0 THEN a ELSE GCD(b, a % b)
Rat(n, d) == LET g == GCD(n, d) IN <<n \div g, d \div g>>
RatAdd(x, y) == Rat(x[1] * y[2] + y[1] * x[2], x[2] * y[2])
RatSub(x, y) == Rat(x[1] * y[2] - y[1] * x[2], x[2] * y[2])
RatPos(x) == x[1] > 0
RatIsZero(x) == x[1] = 0
RatZero == <<0, 1>>

(***************************************************************************)
(* Python floats.  calculate_trade_qty (main.py) divides, takes a          *)
(* remainder and rounds in IEEE-754 binary64, and its result depends on    *)
(* the rounding errors, so the model computes in binary64 exactly.  A      *)
(* natural number of any size is the sequence of its digits in base 2^15,  *)
(* least significant first, without leading zeros (0 is <<>>); a double is *)
(* [m, e], the value m * 2^e with 2^52 <= m < 2^53, or m = 0.              *)
(***************************************************************************)
BASE == 2^15

RECURSIVE BNorm(_)
BNorm(x) ==
    IF x = <<>> \/ x[Len(x)] # 0 THEN x ELSE BNorm(SubSeq(x, 1, Len(x) - 1))

RECURSIVE BFromInt(_)
BFromInt(n) == IF n = 0 THEN <<>> ELSE <<n % BASE>> \o BFromInt(n \div BASE)

RECURSIVE BToInt(_)
BToInt(x) == IF x = <<>> THEN 0 ELSE x[1] + BASE * BToInt(Tail(x))

RECURSIVE BAddC(_, _, _)
BAddC(x, y, carry) ==
    IF x = <<>> /\ y = <<>> THEN (IF carry = 0 THEN <<>> ELSE <<carry>>)
    ELSE LET sum == (IF x = <<>> THEN 0 ELSE x[1])
                    + (IF y = <<>> THEN 0 ELSE y[1]) + carry
         IN  <<sum % BASE>>
             \o BAddC(IF x = <<>> THEN x ELSE Tail(x),
                      IF y = <<>> THEN y ELSE Tail(y), sum \div BASE)
BAdd(x, y) == BAddC(x, y, 0)

RECURSIVE BSubB(_, _, _)
\* x - y - borrow, for x >= y + borrow.
BSubB(x, y, borrow) ==
    IF x = <<>> THEN <<>>
    ELSE LET d == x[1] - (IF y = <<>> THEN 0 ELSE y[1]) - borrow
         IN  <<IF d < 0 THEN d + BASE ELSE d>>
             \o BSubB(Tail(x), IF y = <<>> THEN y ELSE Tail(y),
                      IF d < 0 THEN 1 ELSE 0)
BSub(x, y) == BNorm(BSubB(x, y, 0))

RECURSIVE BMulSmallC(_, _, _)
\* x * m + carry, for 0 <= m < BASE.
BMulSmallC(x, m, carry) ==
    IF x = <<>> THEN (IF carry = 0 THEN <<>> ELSE <<carry>>)
    ELSE LET p == x[1] * m + carry
         IN  <<p % BASE>> \o BMulSmallC(Tail(x), m, p \div BASE)
BMulSmall(x, m) == IF m = 0 THEN <<>> ELSE BMulSmallC(x, m, 0)

\* x * BASE^n.
BShiftLimbs(x, n) == IF x = <<>> THEN x ELSE [i \in 1..n |-> 0] \o x

RECURSIVE BMul(_, _)
BMul(x, y) ==
    IF y = <<>> THEN <<>>
    ELSE BAdd(BMulSmall(x, y[1]), BShiftLimbs(BMul(x, Tail(y)), 1))

RECURSIVE BCmpFrom(_, _, _)
BCmpFrom(x, y, i) ==
    IF i = 0 THEN 0
    ELSE IF x[i] # y[i] THEN (IF x[i] < y[i] THEN 0 - 1 ELSE 1)
    ELSE BCmpFrom(x, y, i - 1)
\* -1, 0 or 1 as x < y, x = y or x > y.
BCmp(x, y) ==
    IF Len(x) # Len(y) THEN (IF Len(x) < Len(y) THEN 0 - 1 ELSE 1)
    ELSE BCmpFrom(x, y, Len(x))

\* x * 2^n.
BShl(x, n) == BShiftLimbs(BMulSmall(x, 2^(n % 15)), n \div 15)

RECURSIVE IntBitLen(_)
IntBitLen(n) == IF n = 0 THEN 0 ELSE 1 + IntBitLen(n \div 2)
BBitLen(x) == IF x = <<>> THEN 0 ELSE 15 * (Len(x) - 1) + IntBitLen(x[Len(x)])
BIsOdd(x) == x # <<>> /\ x[1] % 2 = 1

RECURSIVE BPow10(_)
BPow10(k) == IF k = 0 THEN <<1>> ELSE BMulSmall(BPow10(k - 1), 10)

RECURSIVE DivBits(_, _, _, _, _, _)
\* Long division, bits j-1..0 of one digit of the dividend: r is the running
\* remainder, q the quotient's digit so far, qs the quotient's digits above.
DivBit(r2, d, digit, j, q, qs) ==
    IF BCmp(r2, d) >= 0
    THEN DivBits(BSub(r2, d), d, digit, j - 1, 2 * q + 1, qs)
    ELSE DivBits(r2, d, digit, j - 1, 2 * q, qs)
DivBits(r, d, digit, j, q, qs) ==
    IF j = 0 THEN [r |-> r, q |-> <<q>> \o qs]
    ELSE DivBit(BAddC(BMulSmall(r, 2), <<>>, (digit \div 2^(j - 1)) % 2),
                d, digit, j, q, qs)

RECURSIVE DivDigits(_, _, _)
\* One digit of n per step, most significant first, until the quotient has
\* as many digits as n.
DivDigits(n, d, st) ==
    IF Len(st.q) = Len(n) THEN [q |-> BNorm(st.q), r |-> st.r]
    ELSE DivDigits(n, d,
                   DivBits(st.r, d, n[Len(n) - Len(st.q)], 15, 0, st.q))
\* [q, r] with n = q * d + r and 0 <= r < d.
BDivMod(n, d) == DivDigits(n, d, [r |-> <<>>, q |-> <<>>])

\* q, or q + 1 when the remainder is above half the divisor (c > 0) or is
\* half of it (c = 0) and q is odd.
RoundUp(q, c) ==
    IF c > 0 \/ (c = 0 /\ BIsOdd(q)) THEN BAdd(q, <<1>>) ELSE q
RoundQR(qr, d) == RoundUp(qr.q, BCmp(BMulSmall(qr.r, 2), d))
\* n / d rounded to the nearest integer, ties to even.
RoundDiv(n, d) == RoundQR(BDivMod(n, d), d)

Pos(k) == IF k > 0 THEN k ELSE 0

\* m * 2^e with m of 53 bits, or 54 after rounding up to a power of two.
Normal(m, e) ==
    IF BBitLen(m) > 53 THEN [m |-> BShl(<<1>>, 52), e |-> e + 1]
    ELSE [m |-> m, e |-> e]
\* s is the exponent at which n / (d * 2^s) has 53 bits.
ToDoubleAt(n, d, e, s) ==
    Normal(RoundDiv(BShl(n, Pos(0 - s)), BShl(d, Pos(s))), s + e)
\* n / d is in [2^t, 2^(t+1)) or in (2^(t-1), 2^t).
ToDoubleIn(n, d, e, t) ==
    ToDoubleAt(n, d, e,
               IF BCmp(BShl(n, Pos(0 - t)), BShl(d, Pos(t))) >= 0
               THEN t - 52 ELSE t - 53)
\* The double nearest to (n / d) * 2^e (round to nearest, ties to even).
ToDouble(n, d, e) ==
    IF n = <<>> THEN [m |-> <<>>, e |-> 0]
    ELSE ToDoubleIn(n, d, e, BBitLen(n) - BBitLen(d))

\* float("n / 10^k"), for the decimal with digits n and k decimals.
FromDecimal(n, k) == ToDouble(BFromInt(n), BPow10(k), 0)

\* x / y.
FDiv(x, y) == ToDouble(x.m, y.m, x.e - y.e)

MinInt(a, b) == IF a < b THEN a ELSE b

\* x % y for x >= 0 and y > 0: the remainder is exact.
FModAt(x, y, e) ==
    ToDouble(BDivMod(BShl(x.m, x.e - e), BShl(y.m, y.e - e)).r, <<1>>, e)
FMod(x, y) == IF x.m = <<>> THEN x ELSE FModAt(x, y, MinInt(x.e, y.e))

\* x - y for x >= y >= 0.
FSubAt(x, y, e) ==
    ToDouble(BSub(BShl(x.m, x.e - e), BShl(y.m, y.e - e)), <<1>>, e)
FSub(x, y) == IF y.m = <<>> THEN x ELSE FSubAt(x, y, MinInt(x.e, y.e))

\* round(x, 8): the decimal with 8 decimals nearest to the double's exact
\* value, ties to even, as the count of its 10^-8 units.
Round8(x) ==
    RoundDiv(BShl(BMul(x.m, BPow10(8)), Pos(x.e)), BShl(<<1>>, Pos(0 - x.e)))

\* main.py 154: round(trade_qty - (trade_qty % float(step_size)), 8).
FloorToStep(trade_qty, step_size) ==
    Round8(FSub(trade_qty, FMod(trade_qty, step_size)))

\* main.py 152-154 without the venue call: fixed_amount is a whole number,
\* the price the decimal price_n / 10^price_k, stepSize the decimal
\* step_n / 10^step_k.  The result is the returned float's value in units of
\* 10^-8.
TradeQty(fixed_amount, price_n, price_k, step_n, step_k) ==
    FloorToStep(FDiv(FromDecimal(fixed_amount, 0),
                     FromDecimal(price_n, price_k)),
                FromDecimal(step_n, step_k))

\* The doubles 0.0 and 1.0.
FZero == [m |-> <<>>, e |-> 0]
FOne == FromDecimal(1, 0)
FPos(x) == x.m # <<>>

\* -1, 0 or 1 as x < y, x = y or x > y, for x, y >= 0.
FCmp(x, y) ==
    IF x.m = <<>> THEN (IF y.m = <<>> THEN 0 ELSE 0 - 1)
    ELSE IF y.m = <<>> THEN 1
    ELSE IF x.e # y.e THEN (IF x.e < y.e THEN 0 - 1 ELSE 1)
    ELSE BCmp(x.m, y.m)

\* x * y.
FMul(x, y) == ToDouble(BMul(x.m, y.m), <<1>>, x.e + y.e)

\* x + y for x, y >= 0.
FAddAt(x, y, e) ==
    ToDouble(BAdd(BShl(x.m, x.e - e), BShl(y.m, y.e - e)), <<1>>, e)
FAdd(x, y) ==
    IF x.m = <<>> THEN y ELSE IF y.m = <<>> THEN x
    ELSE FAddAt(x, y, MinInt(x.e, y.e))

\* Python's max(x, y): y when y > x, else x.
FMax(x, y) == IF FCmp(y, x) > 0 THEN y ELSE x

\* x - y with its sign: sign is -1, 0 or 1 and abs the double |x - y|.
FDiff(x, y) ==
    IF FCmp(x, y) > 0 THEN [sign |-> 1, abs |-> FSub(x, y)]
    ELSE IF FCmp(x, y) < 0 THEN [sign |-> 0 - 1, abs |-> FSub(y, x)]
    ELSE [sign |-> 0, abs |-> FZero]

\* float of a price given in hundredths, and of a percentage.
FromCents(price) == FromDecimal(price, 2)
Percent(n) == FromDecimal(n, 2)

(***************************************************************************)
(* The venue as the handler sees it in one cycle.  `in` is the cycle's     *)
(* input: the last row of the strategy's frame (close, position, bb_lower, *)
(* bb_upper), the latest ATR, the free USDT balance, the symbol's step     *)
(* size, and for every endpoint the number of calls that raise before one  *)
(* succeeds (in.fails).  An endpoint whose count reaches the retry limit   *)
(* makes safe_api_call raise.                                              *)
(***************************************************************************)
Endpoints == {"balance", "trades", "sell", "usdt", "info", "buy"}

CallOk(in, endpoint) ==
    safe_api_call(in.fails[endpoint], FALSE, "resultA").pc = "returned"

\* get_current_quantity: the free balance of the base asset; 0 when the call
\* raised (the bare except).
get_current_quantity(a, in) ==
    IF CallOk(in, "balance") THEN a.holdings ELSE RatZero

\* get_purchase_price: the price of the last own trade, 0 when there is none;
\* ok = FALSE when safe_api_call raised.
get_purchase_price(a, in) ==
    [ok |-> CallOk(in, "trades"),
     price |-> IF a.trades # <<>> THEN a.trades[Len(a.trades)] ELSE 0]

\* The prices and the ATR values a cycle draws, in hundredths, and the
\* account's own trades.  133 is 95% of 140.
Prices == {133, 9000, 9500, 10000, 11000, 11100}
ATRs == {0, 500}
TradeHistories == {<<>>, <<140>>, <<10000>>}
\* The entry prices a handler can read: 0 without own trades.
PurchasePrices ==
    {0} \cup Prices \cup {t[Len(t)] : t \in TradeHistories \ {<<>>}}

\* bot.py 133: purchase_price * (1 - STOP_LOSS_PERCENTAGE), in binary64.
InitialStopLoss(purchase_price) ==
    FMul(purchase_price, FSub(FOne, Percent(STOP_LOSS_PERCENTAGE)))

\* bot.py 133-136: the stop-loss price of this cycle, a double; the prices
\* are given in hundredths.
StopLossPriceFlipped(purchase_price, current_price) ==
    IF FCmp(FromCents(current_price),
            FMul(FromCents(purchase_price),
                 FAdd(FOne, Percent(TRAILING_STOP_LOSS_BUFFER)))) < 0
    THEN FMax(InitialStopLoss(FromCents(purchase_price)),
              FMul(FromCents(current_price),
                   FSub(FOne, Percent(TRAILING_STOP_LOSS_BUFFER))))
    ELSE InitialStopLoss(FromCents(purchase_price))

StopLossPrice(purchase_price, current_price) ==
    IF FCmp(FromCents(current_price),
            FMul(FromCents(purchase_price),
                 FAdd(FOne, Percent(TRAILING_STOP_LOSS_BUFFER)))) > 0
    THEN FMax(InitialStopLoss(FromCents(purchase_price)),
              FMul(FromCents(current_price),
                   FSub(FOne, Percent(TRAILING_STOP_LOSS_BUFFER))))
    ELSE InitialStopLoss(FromCents(purchase_price))

\* main.py 127: max(TRAILING_STOP_LOSS_BUFFER_BASE, atr.iloc[-1] / 100); atr
\* is the last value of the ATR(14) column, in hundredths like a price;
\* max() keeps its first argument against NaN.
TrailingBuffer(atr) ==
    IF IsNaN(atr) THEN Percent(TRAILING_STOP_LOSS_BUFFER_BASE)
    ELSE FMax(Percent(TRAILING_STOP_LOSS_BUFFER_BASE),
              FDiv(FromCents(atr), FromDecimal(100, 0)))

\* main.py 128: max(purchase_price * (1 - STOP_LOSS_PERCENTAGE),
\* current_price * (1 - trailing_buffer)); with a buffer of 1 or more the
\* second term is not positive and max() keeps the first.
TrailingStopLoss(purchase_price, current_price, trailing_buffer) ==
    IF FCmp(trailing_buffer, FOne) >= 0
    THEN InitialStopLoss(purchase_price)
    ELSE FMax(InitialStopLoss(purchase_price),
              FMul(current_price, FSub(FOne, trailing_buffer)))

\* main.py 122-129, a double; the prices are given in hundredths.
calculate_trailing_stop_loss(purchase_price, current_price, atr) ==
    TrailingStopLoss(FromCents(purchase_price), FromCents(current_price),
                     TrailingBuffer(atr))

\* The floats of the drawn prices and the stop-loss prices of the drawn
\* pairs, computed once; other arguments are computed when asked for.
PriceFloats == [p \in PurchasePrices |-> FromCents(p)]
BaselineStops ==
    [p \in PurchasePrices |-> [c \in Prices |-> StopLossPrice(p, c)]]
AdvancedStops ==
    [p \in PurchasePrices |->
        [c \in Prices |->
            [atr \in ATRs |-> calculate_trailing_stop_loss(p, c, atr)]]]
PriceFloat(price) ==
    IF price \in PurchasePrices THEN PriceFloats[price]
    ELSE FromCents(price)
StopLossPriceOf(purchase_price, current_price) ==
    IF purchase_price \in PurchasePrices /\ current_price \in Prices
    THEN BaselineStops[purchase_price][current_price]
    ELSE StopLossPrice(purchase_price, current_price)
TrailingStopLossOf(purchase_price, current_price, atr) ==
    IF purchase_price \in PurchasePrices /\ current_price \in Prices
       /\ atr \in ATRs
    THEN AdvancedStops[purchase_price][current_price][atr]
    ELSE calculate_trailing_stop_loss(purchase_price, current_price, atr)

\* bot.py 112-118: ok = FALSE when the USDT balance call raised.
calculate_trade_qty_baseline(in) ==
    [ok |-> CallOk(in, "usdt"),
     qty |-> Rat(in.usdt * TRADE_PERCENTAGE, 100 * in.close)]

\* The locals of a handler before its first statement.
Locals0(in) ==
    [current_price |-> in.close, position |-> in.position,
     current_qty |-> RatZero, purchase_price |-> 0,
     has_stop |-> FALSE, stop_loss_price |-> FZero,
     balance |-> 0, orders |-> <<>>, raised |-> FALSE]

\* safe_api_call(client.order_market_sell / order_market_buy, ...): the order
\* is placed when a call succeeds; the venue refuses a quantity that is not
\* positive, which raises on every retry.
SubmitOrder(l, in, side, endpoint, quantity) ==
    IF CallOk(in, endpoint) /\ RatPos(quantity)
    THEN [l EXCEPT !.orders = Append(@, [side |-> side, quantity |-> quantity])]
    ELSE [l EXCEPT !.raised = TRUE]

\* `current_price <= stop_loss_price` (bot.py 138, main.py 171).
\* current_price is given in hundredths, stop_loss_price is a double.
StopLossHitStrict(current_price, stop_loss_price) ==
    FCmp(PriceFloat(current_price), stop_loss_price) < 0

StopLossHit(current_price, stop_loss_price) ==
    FCmp(PriceFloat(current_price), stop_loss_price) <= 0

\* bot.py 143-150: the signal branch of execute_trades.
SignalBranch(l, in) ==
    IF in.position = 1 /\ RatIsZero(l.current_qty)
    THEN LET q == calculate_trade_qty_baseline(in)
         IN  IF q.ok
             THEN SubmitOrder([l EXCEPT !.balance = in.usdt], in,
                              "BUY", "buy", q.qty)
             ELSE [l EXCEPT !.raised = TRUE]
    ELSE IF in.position = 0 - 1 /\ RatPos(l.current_qty)
    THEN SubmitOrder(l, in, "SELL", "sell", l.current_qty)
    ELSE l

\* bot.py 141: `return` after the stop-loss sell (an exception raised by the
\* sell has already left the handler).
StopLossFallsThrough(l, in) == IF l.raised THEN l ELSE SignalBranch(l, in)

StopLossReturn(l, in) == l

\* bot.py 120-150.  a is the venue's account, the result the handler's locals.
execute_trades(a, in) ==
    LET current_qty == get_current_quantity(a, in)
        l1 == [Locals0(in) EXCEPT !.current_qty = current_qty]
    IN  IF RatPos(current_qty)
        THEN LET p == get_purchase_price(a, in)
                 stop_loss_price == StopLossPriceOf(p.price, in.close)
                 l2 == [l1 EXCEPT !.purchase_price = p.price,
                                  !.has_stop = TRUE,
                                  !.stop_loss_price = stop_loss_price]
             IN  IF ~p.ok THEN [l1 EXCEPT !.raised = TRUE]
                 ELSE IF StopLossHit(in.close, stop_loss_price)
                 THEN StopLossReturn(
                          SubmitOrder(l2, in, "SELL", "sell", current_qty), in)
                 ELSE SignalBranch(l2, in)
        ELSE SignalBranch(l1, in)

\* The stepSize the venue reports for the handler's symbol, digits and number
\* of decimals: "0.001".
HandlerStepSize == <<1, 3>>

\* main.py 148-155 for each close the handler can see (closes are in
\* hundredths), computed once.
HandlerTradeQty ==
    [close \in Prices |->
        BToInt(TradeQty(FIXED_TRADE_AMOUNT, close, 2,
                        HandlerStepSize[1], HandlerStepSize[2]))]

\* main.py 148-155 as the handler calls it: the symbol info is one API call,
\* the quantity the returned float as an exact fraction.
calculate_trade_qty_advanced(in) ==
    [ok |-> CallOk(in, "info"),
     qty |-> Rat(HandlerTradeQty[in.close], 10^8)]

\* main.py 176-184: the signal branch of execute_advanced_trades.
AdvancedSignalBranch(l, in) ==
    IF in.position = 1 /\ RatIsZero(l.current_qty) /\ Lt(in.close, in.bb_lower)
    THEN LET q == calculate_trade_qty_advanced(in)
         IN  IF q.ok THEN SubmitOrder(l, in, "BUY", "buy", q.qty)
                     ELSE [l EXCEPT !.raised = TRUE]
    ELSE IF in.position = 0 - 1 /\ RatPos(l.current_qty)
            /\ Gt(in.close, in.bb_upper)
    THEN SubmitOrder(l, in, "SELL", "sell", l.current_qty)
    ELSE l

\* main.py 157-184.
execute_advanced_trades(a, in) ==
    LET current_qty == get_current_quantity(a, in)
        l1 == [Locals0(in) EXCEPT !.current_qty = current_qty]
    IN  IF RatPos(current_qty)
        THEN LET p == get_purchase_price(a, in)
                 stop_loss_price ==
                     TrailingStopLossOf(p.price, in.close, in.atr)
                 l2 == [l1 EXCEPT !.purchase_price = p.price,
                                  !.has_stop = TRUE,
                                  !.stop_loss_price = stop_loss_price]
             IN  IF ~p.ok THEN [l1 EXCEPT !.raised = TRUE]
                 ELSE IF StopLossHit(in.close, stop_loss_price)
                 THEN StopLossReturn(
                          SubmitOrder(l2, in, "SELL", "sell", current_qty), in)
                 ELSE AdvancedSignalBranch(l2, in)
        ELSE AdvancedSignalBranch(l1, in)

\* The venue fills a market order at once and in full, at the cycle's close:
\* the fill becomes the account's last own trade.
RECURSIVE Fill(_, _, _)
Fill(a, orders, price) ==
    IF orders = <<>> THEN a
    ELSE LET o == Head(orders)
         IN  Fill([holdings |-> IF o.side = "BUY"
                                THEN RatAdd(a.holdings, o.quantity)
                                ELSE RatSub(a.holdings, o.quantity),
                   trades |-> <<price>>],
                  Tail(orders), price)

\* What the claims about successive cycles read of the cycle before: whether
\* it computed a stop-loss price and placed no order (the position stayed
\* open), and with which prices.
Before(c) ==
    [open |-> c.has_stop /\ c.orders = <<>> /\ ~c.raised,
     current_price |-> c.current_price,
     purchase_price |-> c.purchase_price,
     stop_loss_price |-> c.stop_loss_price]

\* The record of a cycle: its number, the account's holdings when it began,
\* the handler's locals when it ended (balance is the free USDT that
\* calculate_trade_qty of bot.py read, 0 when it read none), and the cycle
\* before.
CycStart ==
    [n |-> 0, held |-> RatZero, current_price |-> 0, position |-> 0,
     current_qty |-> RatZero, purchase_price |-> 0,
     has_stop |-> FALSE, stop_loss_price |-> FZero,
     balance |-> 0, orders |-> <<>>, raised |-> FALSE,
     before |-> [open |-> FALSE, current_price |-> 0, purchase_price |-> 0,
                 stop_loss_price |-> FZero]]

Cyc(l, a, c) ==
    [n |-> c.n + 1, held |-> a.holdings,
     current_price |-> l.current_price, position |-> l.position,
     current_qty |-> l.current_qty, purchase_price |-> l.purchase_price,
     has_stop |-> l.has_stop, stop_loss_price |-> l.stop_loss_price,
     balance |-> l.balance, orders |-> l.orders, raised |-> l.raised,
     before |-> Before(c)]

(***************************************************************************)
(* The inputs a cycle draws.                                               *)
(***************************************************************************)
BaselinePositions == {NaN, 0 - 1, 0, 1}
AdvancedPositions == {NaN, 0 - 2, 0 - 1, 0, 1, 2}
UsdtFree == {0, 100000}
\* The Bollinger bands of the last row: undefined, the close below the lower
\* band, the close above the upper band.  The handler reads them only when
\* the transition is +1 or -1.
Bands(close, position) ==
    IF position \in {1, 0 - 1}
    THEN {[lower |-> NaN, upper |-> NaN],
          [lower |-> close + 100, upper |-> close + 200],
          [lower |-> close - 200, upper |-> close - 100]}
    ELSE {[lower |-> NaN, upper |-> NaN]}
\* The balance call may fail on every retry and, besides, at most one of the
\* other endpoints (a handler stops at the first call that raises; with a
\* balance read of 0 it calls neither the trades nor the sell endpoint).
FailScripts(others) ==
    {f \in [Endpoints -> {0, DEFAULT_MAX_RETRIES}] :
        /\ \A e \in Endpoints \ (others \cup {"balance"}) : f[e] = 0
        /\ Cardinality({e \in others : f[e] # 0}) <= 1
        /\ f["balance"] # 0 => f["trades"] = 0 /\ f["sell"] = 0}
BaselineScripts == FailScripts({"trades", "sell", "usdt", "buy"})
AdvancedScripts == FailScripts({"trades", "sell", "info", "buy"})
Holdings == {RatZero, <<1, 2>>}

(***************************************************************************)
(* The signal engine.  A series is the sequence of its closes (whole       *)
(* numbers); element i + 1 of a column is the row of index i.              *)
(*                                                                         *)
(* SMAIndicator(close, window).sma_indicator() is the rolling mean with    *)
(* min_periods = window: NaN before index window - 1.  A column of the     *)
(* model holds the window's sum, the mean being sum / window, and two      *)
(* means are compared by cross-multiplication.                             *)
(***************************************************************************)
RECURSIVE SumRange(_, _, _)
\* close[lo] + ... + close[hi], by halves.
SumRange(close, lo, hi) ==
    IF lo > hi THEN 0
    ELSE IF lo = hi THEN close[lo]
    ELSE LET mid == (lo + hi) \div 2
         IN  SumRange(close, lo, mid) + SumRange(close, mid + 1, hi)

\* The rolling mean with min_periods = 1 (fillna = True): defined from row 0.
sma_indicator_fillna(close, window) ==
    [k \in 1..Len(close) |->
        IF k >= window THEN SumRange(close, k + 1 - window, k)
        ELSE (SumRange(close, 1, k) * window) \div k]

sma_indicator(close, window) ==
    [k \in 1..Len(close) |->
        IF k >= window THEN SumRange(close, k + 1 - window, k) ELSE NaN]

\* sum_a / window_a > sum_b / window_b, FALSE when either is NaN.
MeanGt(sum_a, window_a, sum_b, window_b) ==
    LET g == GCD(window_a, window_b)
    IN  /\ ~IsNaN(sum_a) /\ ~IsNaN(sum_b)
        /\ sum_a * (window_b \div g) > sum_b * (window_a \div g)

\* data['signal'].diff(): NaN in the first row.
Diff(signal) ==
    [k \in 1..Len(signal) |->
        IF k = 1 THEN NaN ELSE signal[k] - signal[k - 1]]

\* bot.py 80-93.  The signal is 1 where SMA_short > SMA_long from index
\* SMA_SHORT on, else 0.
apply_sma_strategy(close) ==
    LET sma_short == sma_indicator(close, SMA_SHORT)
        sma_long == sma_indicator(close, SMA_LONG)
        signal == [k \in 1..Len(close) |->
                      IF k - 1 >= SMA_SHORT
                         /\ MeanGt(sma_short[k], SMA_SHORT, sma_long[k], SMA_LONG)
                      THEN 1 ELSE 0]
    IN  [signal |-> signal, position |-> Diff(signal)]

\* main.py 98-120.  rsi is the RSI(14) column (0..100 or NaN); the second
\* assignment (-1) is made after the first (1).
apply_advanced_strategy(close, rsi) ==
    LET sma_short == sma_indicator(close, SMA_SHORT)
        sma_long == sma_indicator(close, SMA_LONG)
        signal == [k \in 1..Len(close) |->
                      IF MeanGt(sma_long[k], SMA_LONG, sma_short[k], SMA_SHORT)
                         /\ Gt(rsi[k], RSI_THRESHOLD_SELL)
                      THEN 0 - 1
                      ELSE IF MeanGt(sma_short[k], SMA_SHORT, sma_long[k], SMA_LONG)
                              /\ Lt(rsi[k], RSI_THRESHOLD_BUY)
                      THEN 1 ELSE 0]
    IN  [signal |-> signal, position |-> Diff(signal)]

(***************************************************************************)
(* The series the model draws: a length and a shape.                       *)
(***************************************************************************)
Lengths ==
    {1, 2, SMA_SHORT - 1, SMA_SHORT, SMA_SHORT + 1, 120,
     SMA_LONG - 1, SMA_LONG, SMA_LONG + 1, SMA_LONG + ExtraLen}
Shapes == {"flat", "rising", "falling", "vee", "peak"}
Abs(x) == IF x < 0 THEN 0 - x ELSE x
Series(len, shape) ==
    [k \in 1..len |->
        CASE shape = "flat" -> 100
          [] shape = "rising" -> 100 + k
          [] shape = "falling" -> 400 - k
          [] shape = "vee" -> 100 + 2 * Abs(k - (len \div 2))
          [] shape = "peak" -> 400 - 2 * Abs(k - (len \div 2))]
\* The RSI column: oversold, overbought, neutral, undefined, or turning from
\* overbought to oversold every 16 rows.
RsiShapes == {"low", "high", "mid", "nan", "swing"}
RsiColumn(len, shape) ==
    [k \in 1..len |->
        CASE shape = "low" -> 20
          [] shape = "high" -> 80
          [] shape = "mid" -> 50
          [] shape = "nan" -> NaN
          [] shape = "swing" -> IF (k \div 16) % 2 = 0 THEN 80 ELSE 20]

SigStart(close, rsi) ==
    [pc |-> "fetched", close |-> close, rsi |-> rsi,
     signal |-> <<>>, position |-> <<>>]
IdleSig == SigStart(<<>>, <<>>)

Values == {"resultA", "resultB"}
Delays == {0, DEFAULT_DELAY}

IdleInv == InvokerStart(DEFAULT_MAX_RETRIES, DEFAULT_DELAY, 0, FALSE, "resultA")
IdleAcct == [holdings |-> <<0, 1>>, trades |-> <<>>]
IdleBt == [pc |-> "idle"]
IdleOrch == [pc |-> "idle"]

(***************************************************************************)
(* One call of calculate_trade_qty (main.py 148-155).                      *)
(***************************************************************************)
\* Decimals as <<digits, number of decimals>>.
SizingPrices ==
    {<<1, 0>>, <<3, 0>>, <<7, 0>>, <<8, 0>>, <<10, 0>>, <<16, 0>>,
     <<100, 0>>, <<2500, 2>>, <<11000, 2>>, <<333333, 3>>, <<5000000, 2>>}
SizingSteps ==
    {<<1, 0>>, <<1, 1>>, <<1, 2>>, <<1, 3>>, <<1, 5>>, <<1, 8>>}
SizingAmounts == {1, FIXED_TRADE_AMOUNT, 100}

SizStart(fixed_amount, price, step, info_ok) ==
    [pc |-> "called", fixed_amount |-> fixed_amount, price |-> price,
     step |-> step, info_ok |-> info_ok, trade_qty |-> 0]
IdleSiz == SizStart(FIXED_TRADE_AMOUNT, <<1, 0>>, <<1, 0>>, TRUE)

\* main.py 148-155: the returned float, in units of 10^-8.
calculate_trade_qty(fixed_amount, price, step) ==
    BToInt(TradeQty(fixed_amount, price[1], price[2], step[1], step[2]))

InitSizing ==
    /\ \E fixed_amount \in SizingAmounts, price \in SizingPrices,
          step \in SizingSteps, info_ok \in BOOLEAN :
          /\ fixed_amount * 10^price[2] <= MaxQty * price[1]
          /\ siz = SizStart(fixed_amount, price, step, info_ok)
    /\ variant = "advanced"
    /\ inv = IdleInv /\ acct = IdleAcct /\ cyc = CycStart /\ sig = IdleSig
    /\ bt = IdleBt /\ orch = IdleOrch

CalculateTradeQtyReturns ==
    /\ siz.pc = "called" /\ siz.info_ok
    /\ siz' = [siz EXCEPT !.pc = "returned",
                  !.trade_qty = calculate_trade_qty(siz.fixed_amount,
                                                    siz.price, siz.step)]
    /\ UNCHANGED <<variant, inv, acct, cyc, sig, bt, orch>>

\* main.py 153: the symbol info call ran out of retries.
CalculateTradeQtyRaises ==
    /\ siz.pc = "called" /\ ~siz.info_ok
    /\ siz' = [siz EXCEPT !.pc = "raised"]
    /\ UNCHANGED <<variant, inv, acct, cyc, sig, bt, orch>>

NextSizing == CalculateTradeQtyReturns \/ CalculateTradeQtyRaises

SpecSizing == InitSizing /\ [][NextSizing]_vars

InitInvoker ==
    /\ \E m \in 0..MaxRetriesArg, d \in Delays, k \in 0..MaxFails,
          a \in BOOLEAN, v \in Values :
          inv = InvokerStart(m, d, IF a THEN 0 ELSE k, a, v)
    /\ variant \in {"baseline", "advanced"}
    /\ acct = IdleAcct /\ cyc = CycStart /\ sig = IdleSig /\ siz = IdleSiz
    /\ bt = IdleBt /\ orch = IdleOrch

\* The loop makes a call (and sleeps when the call raised).
InvokerAttempt ==
    /\ inv.pc = "loop"
    /\ inv' = InvokerStep(inv)
    /\ inv'.calls = inv.calls + 1
    /\ UNCHANGED <<variant, acct, cyc, sig, siz, bt, orch>>

\* The loop condition is false: the function raises.
InvokerExhaust ==
    /\ inv.pc = "loop"
    /\ inv' = InvokerStep(inv)
    /\ inv'.pc = "raised"
    /\ UNCHANGED <<variant, acct, cyc, sig, siz, bt, orch>>

NextInvoker == InvokerAttempt \/ InvokerExhaust

SpecInvoker == InitInvoker /\ [][NextInvoker]_vars

\* The interpreter runs the loop to its end: a step that can be taken is taken.
SpecInvokerFair == InitInvoker /\ [][NextInvoker]_vars /\ WF_vars(NextInvoker)

(***************************************************************************)
(* The per-symbol trade handler, cycle after cycle.  An exception that     *)
(* leaves the handler leaves main too: no later cycle runs.                *)
(***************************************************************************)
Init ==
    /\ variant \in {"baseline", "advanced"}
    /\ acct \in [holdings : Holdings, trades : TradeHistories]
    /\ cyc = CycStart
    /\ inv = IdleInv /\ sig = IdleSig /\ siz = IdleSiz
    /\ bt = IdleBt /\ orch = IdleOrch

ExecuteTradesCycle ==
    /\ variant = "baseline"
    /\ cyc.n < MaxCycles /\ ~cyc.raised
    /\ \E close \in Prices, position \in BaselinePositions,
          usdt \in UsdtFree, fails \in BaselineScripts :
          LET in == [close |-> close, position |-> position,
                     usdt |-> usdt, fails |-> fails]
              l == execute_trades(acct, in)
          IN  /\ cyc' = Cyc(l, acct, cyc)
              /\ acct' = Fill(acct, l.orders, close)
    /\ UNCHANGED <<variant, inv, sig, siz, bt, orch>>

ExecuteAdvancedTradesCycle ==
    /\ variant = "advanced"
    /\ cyc.n < MaxCycles /\ ~cyc.raised
    /\ \E close \in Prices, position \in AdvancedPositions,
          atr \in ATRs, fails \in AdvancedScripts :
          \E bb \in Bands(close, position) :
          LET in == [close |-> close, position |-> position,
                     bb_lower |-> bb.lower, bb_upper |-> bb.upper,
                     atr |-> atr, fails |-> fails]
              l == execute_advanced_trades(acct, in)
          IN  /\ cyc' = Cyc(l, acct, cyc)
              /\ acct' = Fill(acct, l.orders, close)
    /\ UNCHANGED <<variant, inv, sig, siz, bt, orch>>

Next == ExecuteTradesCycle \/ ExecuteAdvancedTradesCycle

Spec == Init /\ [][Next]_vars

(***************************************************************************)
(* The signal engine applied to one fetched series.                        *)
(***************************************************************************)
InitSignal ==
    /\ variant \in {"baseline", "advanced"}
    /\ \E len \in Lengths, shape \in Shapes, r \in RsiShapes :
          sig = SigStart(Series(len, shape), RsiColumn(len, r))
    /\ inv = IdleInv /\ acct = IdleAcct /\ cyc = CycStart /\ siz = IdleSiz
    /\ bt = IdleBt /\ orch = IdleOrch

ApplySmaStrategy ==
    /\ variant = "baseline" /\ sig.pc = "fetched"
    /\ LET d == apply_sma_strategy(sig.close)
       IN  sig' = [sig EXCEPT !.pc = "applied", !.signal = d.signal,
                              !.position = d.position]
    /\ UNCHANGED <<variant, inv, acct, cyc, siz, bt, orch>>

ApplyAdvancedStrategy ==
    /\ variant = "advanced" /\ sig.pc = "fetched"
    /\ LET d == apply_advanced_strategy(sig.close, sig.rsi)
       IN  sig' = [sig EXCEPT !.pc = "applied", !.signal = d.signal,
                              !.position = d.position]
    /\ UNCHANGED <<variant, inv, acct, cyc, siz, bt, orch>>

NextSignal == ApplySmaStrategy \/ ApplyAdvancedStrategy

SpecSignal == InitSignal /\ [][NextSignal]_vars

(***************************************************************************)
(* backtest_sma_strategy (bot.py 152-176), one row of the frame per step.  *)
(* A close is close[k] / scale; balance and trade_qty are doubles, as are   *)
(* the quotient and the product that make them.                            *)
(***************************************************************************)
INITIAL_BALANCE == 10000

\* row['close'] as a double.
CloseFloat(close, scale) == ToDouble(BFromInt(close), BFromInt(scale), 0)
\* bot.py 165: balance / current_price.
BuyAll(balance, close, scale) == FDiv(balance, CloseFloat(close, scale))
\* bot.py 170: trade_qty * current_price.
SellAll(trade_qty, close, scale) == FMul(trade_qty, CloseFloat(close, scale))

\* The series a backtest draws.  "linear" rises linearly from 100 to 350 over
\* its length; "rising", "convex" and "concave" are strictly increasing too;
\* "wave" rises and falls with a period of 300 candles.
BtShapes == {"linear", "rising", "convex", "concave", "wave", "falling"}
BtLengths ==
    {SMA_LONG - 1, SMA_LONG, SMA_LONG + 1, SMA_LONG + ExtraLen,
     2 * (SMA_LONG + ExtraLen)}
BtScale(len, shape) == IF shape = "linear" THEN len - 1 ELSE 1
BtSeries(len, shape) ==
    [k \in 1..len |->
        CASE shape = "linear" -> 100 * (len - 1) + 250 * (k - 1)
          [] shape = "rising" -> 100 + k
          [] shape = "convex" -> 100 + k * k
          [] shape = "concave" -> 1200 * k - k * k
          [] shape = "wave" -> 200 + Abs(((k + 75) % 300) - 150)
          [] shape = "falling" -> 1000 - k]

BtStart(close, scale, shape) ==
    [pc |-> "rows", shape |-> shape, close |-> close, scale |-> scale,
     signal |-> apply_sma_strategy(close).signal,
     position |-> apply_sma_strategy(close).position,
     row |-> 0, balance |-> FromDecimal(INITIAL_BALANCE, 0),
     trade_qty |-> FZero, purchase_price |-> 0, buys |-> 0, sells |-> 0,
     profit |-> [sign |-> 0, abs |-> FZero]]

\* bot.py 169 with the transition test dropped: sells on any row that does
\* not buy while a quantity is held.
BacktestRowSellsOnHold(b) ==
    LET k == b.row + 1
    IN  IF b.position[k] = 1 /\ ~FPos(b.trade_qty)
        THEN [b EXCEPT !.row = k,
                       !.trade_qty = BuyAll(b.balance, b.close[k], b.scale),
                       !.purchase_price = b.close[k],
                       !.buys = @ + 1]
        ELSE IF FPos(b.trade_qty)
        THEN [b EXCEPT !.row = k,
                       !.balance = SellAll(b.trade_qty, b.close[k], b.scale),
                       !.trade_qty = FZero,
                       !.sells = @ + 1]
        ELSE [b EXCEPT !.row = k]

\* bot.py 161-172: the body of the loop for the next row.
BacktestRow(b) ==
    LET k == b.row + 1
    IN  IF b.position[k] = 1 /\ ~FPos(b.trade_qty)
        THEN [b EXCEPT !.row = k,
                       !.trade_qty = BuyAll(b.balance, b.close[k], b.scale),
                       !.purchase_price = b.close[k],
                       !.buys = @ + 1]
        ELSE IF b.position[k] = 0 - 1 /\ FPos(b.trade_qty)
        THEN [b EXCEPT !.row = k,
                       !.balance = SellAll(b.trade_qty, b.close[k], b.scale),
                       !.trade_qty = FZero,
                       !.sells = @ + 1]
        ELSE [b EXCEPT !.row = k]

InitBacktest ==
    /\ \E len \in BtLengths, shape \in BtShapes :
          bt = BtStart(BtSeries(len, shape), BtScale(len, shape), shape)
    /\ variant = "baseline"
    /\ inv = IdleInv /\ acct = IdleAcct /\ cyc = CycStart /\ sig = IdleSig
    /\ siz = IdleSiz /\ orch = IdleOrch

BacktestNextRow ==
    /\ bt.pc = "rows" /\ bt.row < Len(bt.close)
    /\ bt' = BacktestRow(bt)
    /\ UNCHANGED <<variant, inv, acct, cyc, sig, siz, orch>>

\* bot.py 174-176.
BacktestReturn ==
    /\ bt.pc = "rows" /\ bt.row = Len(bt.close)
    /\ bt' = [bt EXCEPT !.pc = "returned",
                        !.profit = FDiff(bt.balance,
                                         FromDecimal(INITIAL_BALANCE, 0))]
    /\ UNCHANGED <<variant, inv, acct, cyc, sig, siz, orch>>

NextBacktest == BacktestNextRow \/ BacktestReturn

SpecBacktest == InitBacktest /\ [][NextBacktest]_vars

(***************************************************************************)
(* main (bot.py 185-200, main.py 186-201): screen the venue's symbols,     *)
(* then fetch, signal and trade each symbol that passed; sleep; again.     *)
(* orch holds main's locals and what the venue holds for it: the accounts  *)
(* and closes of the symbols, the remote calls and the orders of the       *)
(* iteration so far.                                                       *)
(***************************************************************************)
MIN_VOLUME == 1000000
MIN_VOLATILITY == 2         \* in hundredths
\* The venue's exchange info.
ExchangeInfo ==
    <<[symbol |-> "AAAUSDT", quoteAsset |-> "USDT", status |-> "TRADING"],
      [symbol |-> "CCCBTC", quoteAsset |-> "BTC", status |-> "TRADING"],
      [symbol |-> "BBBUSDT", quoteAsset |-> "USDT", status |-> "TRADING"],
      [symbol |-> "DDDUSDT", quoteAsset |-> "USDT", status |-> "BREAK"]>>
InfoOf(symbol) ==
    CHOOSE s \in {ExchangeInfo[k] : k \in 1..Len(ExchangeInfo)} :
        s.symbol = symbol
\* The symbols the account can hold a position in.
Tradable == {"AAAUSDT", "BBBUSDT"}

IsUsdtTrading(s) == s.quoteAsset = "USDT" /\ s.status = "TRADING"
\* bot.py 41.
SymbolsOf(info) ==
    [k \in 1..Len(SelectSeq(info, IsUsdtTrading)) |->
        SelectSeq(info, IsUsdtTrading)[k].symbol]

\* A remote call through safe_api_call: it fails on none or on all of its
\* attempts.
RemoteFails == {0, DEFAULT_MAX_RETRIES}
RemoteOk(fails) == safe_api_call(fails, FALSE, "resultA").pc = "returned"

\* bot.py 52 with the comparison turned around.
VolumePassesBelow(volume) == volume <= MIN_VOLUME - 1
\* bot.py 52.
VolumePasses(volume) == volume >= MIN_VOLUME
\* bot.py 65; the standard deviation of fewer than two returns is NaN.
VolatilityPasses(volatility) ==
    ~IsNaN(volatility) /\ volatility >= MIN_VOLATILITY

\* A loop over symbols that has passed its last symbol hands its result to
\* the next loop; a loop over no symbols is passed at once.
Settle(o) ==
    IF o.i <= Len(o.symbols) THEN o
    ELSE IF o.pc = "for_symbol" \/ o.out = <<>>
    THEN [o EXCEPT !.pc = "sleep", !.symbols = o.out, !.out = <<>>, !.i = 1]
    ELSE [o EXCEPT !.pc = IF o.pc = "filter_volume" THEN "filter_volatility"
                          ELSE "for_symbol",
                   !.symbols = o.out, !.out = <<>>, !.i = 1]

Raised(o, call) ==
    [o EXCEPT !.pc = "raised", !.exhausted = TRUE,
              !.calls = Append(@, call)]

\* bot.py 189: the state when an iteration of `while True` begins.
\* n counts the iterations; bought tells, for each symbol, whether an earlier
\* iteration that saw the same last candle submitted a buy; exhausted,
\* whether a remote call of this iteration ran out of retries.
MainStart(n, accts, close, bought) ==
    [pc |-> "get_symbols", n |-> n, symbols |-> <<>>, out |-> <<>>, i |-> 1,
     accts |-> accts, start |-> accts, close |-> close, bought |-> bought,
     calls |-> <<>>, orders |-> <<>>, exhausted |-> FALSE]

\* bot.py 190 (36-42).
GetSymbols(o, fails) ==
    IF RemoteOk(fails)
    THEN Settle([o EXCEPT !.pc = "filter_volume",
                          !.symbols = SymbolsOf(ExchangeInfo),
                          !.out = <<>>, !.i = 1,
                          !.calls = Append(@, [op |-> "exchange_info"])])
    ELSE Raised(o, [op |-> "exchange_info"])

\* bot.py 49-53: one pass of the loop of filter_symbols_by_volume.
FilterVolume(o, fails, volume) ==
    IF RemoteOk(fails)
    THEN Settle([o EXCEPT
             !.i = @ + 1,
             !.out = IF VolumePasses(volume)
                     THEN Append(@, o.symbols[o.i]) ELSE @,
             !.calls = Append(@, [op |-> "ticker", symbol |-> o.symbols[o.i],
                                  volume |-> volume])])
    ELSE Raised(o, [op |-> "ticker", symbol |-> o.symbols[o.i],
                    volume |-> NaN])

\* bot.py 61-66: one pass of the loop of filter_symbols_by_volatility.
FilterVolatility(o, fails, volatility) ==
    IF RemoteOk(fails)
    THEN Settle([o EXCEPT
             !.i = @ + 1,
             !.out = IF VolatilityPasses(volatility)
                     THEN Append(@, o.symbols[o.i]) ELSE @,
             !.calls = Append(@, [op |-> "klines", symbol |-> o.symbols[o.i],
                                  phase |-> "screen"])])
    ELSE Raised(o, [op |-> "klines", symbol |-> o.symbols[o.i],
                    phase |-> "screen"])

\* The orders of one handler evaluation, as main's iteration records them.
OrdersOf(symbol, l) ==
    [k \in 1..Len(l.orders) |->
        [symbol |-> symbol, side |-> l.orders[k].side,
         quantity |-> l.orders[k].quantity]]

\* bot.py 195-197 after get_data returned: l is what the handler did for
\* o.symbols[o.i]; swallowed tells that get_current_quantity caught the
\* exception of an exhausted balance call.
HandleSymbol(o, swallowed, l) ==
    LET symbol == o.symbols[o.i]
        done == [o EXCEPT
                    !.i = @ + 1,
                    !.accts[symbol] = Fill(@, l.orders, o.close[symbol]),
                    !.orders = @ \o OrdersOf(symbol, l),
                    !.exhausted = @ \/ swallowed \/ l.raised,
                    !.calls = @ \o <<[op |-> "klines", symbol |-> symbol,
                                      phase |-> "trade"],
                                     [op |-> "handler", symbol |-> symbol]>>]
    IN  IF l.raised THEN [done EXCEPT !.pc = "raised"] ELSE Settle(done)

\* The inputs main's iterations draw.
MainPrices == {9000, 10000}
MainAccounts ==
    {[holdings |-> RatZero, trades |-> <<>>],
     [holdings |-> <<1, 2>>, trades |-> <<10000>>]}
Volumes == {MIN_VOLUME - 1, MIN_VOLUME}
Volatilities == {NaN, MIN_VOLATILITY - 1, MIN_VOLATILITY}
MainPositions == {0 - 1, 0, 1}
NotBought == [s \in Tradable |-> FALSE]
\* The iteration's orders added to the buys of the candle.
Bought(o) ==
    [s \in Tradable |->
        o.bought[s]
        \/ \E k \in 1..Len(o.orders) :
              o.orders[k].symbol = s /\ o.orders[k].side = "BUY"]

InitMain ==
    /\ variant \in {"baseline", "advanced"}
    /\ \E accts \in [Tradable -> MainAccounts],
          close \in [Tradable -> MainPrices] :
          orch = MainStart(1, accts, close, NotBought)
    /\ inv = IdleInv /\ acct = IdleAcct /\ cyc = CycStart /\ sig = IdleSig
    /\ siz = IdleSiz /\ bt = IdleBt

MainGetSymbols ==
    /\ orch.pc = "get_symbols"
    /\ \E fails \in RemoteFails : orch' = GetSymbols(orch, fails)
    /\ UNCHANGED <<variant, inv, acct, cyc, sig, siz, bt>>

MainFilterVolume ==
    /\ orch.pc = "filter_volume"
    /\ \E fails \in RemoteFails, volume \in Volumes :
          orch' = FilterVolume(orch, fails, volume)
    /\ UNCHANGED <<variant, inv, acct, cyc, sig, siz, bt>>

MainFilterVolatility ==
    /\ orch.pc = "filter_volatility"
    /\ \E fails \in RemoteFails, volatility \in Volatilities :
          orch' = FilterVolatility(orch, fails, volatility)
    /\ UNCHANGED <<variant, inv, acct, cyc, sig, siz, bt>>

\* bot.py 195: get_data ran out of retries.
MainGetDataRaises ==
    /\ orch.pc = "for_symbol"
    /\ orch' = Raised(orch, [op |-> "klines", symbol |-> orch.symbols[orch.i],
                             phase |-> "trade"])
    /\ UNCHANGED <<variant, inv, acct, cyc, sig, siz, bt>>

\* bot.py 195-197.
MainExecuteTrades ==
    /\ variant = "baseline" /\ orch.pc = "for_symbol"
    /\ \E position \in MainPositions,
          fails \in BaselineScripts :
          orch' = HandleSymbol(orch, fails["balance"] # 0,
                      execute_trades(orch.accts[orch.symbols[orch.i]],
                          [close |-> orch.close[orch.symbols[orch.i]],
                           position |-> position, usdt |-> 100000,
                           fails |-> fails]))
    /\ UNCHANGED <<variant, inv, acct, cyc, sig, siz, bt>>

\* main.py 196-198.
MainExecuteAdvancedTrades ==
    /\ variant = "advanced" /\ orch.pc = "for_symbol"
    /\ \E position \in MainPositions, atr \in ATRs,
          fails \in AdvancedScripts :
       \E bb \in Bands(orch.close[orch.symbols[orch.i]], position) :
          orch' = HandleSymbol(orch, fails["balance"] # 0,
                      execute_advanced_trades(orch.accts[orch.symbols[orch.i]],
                          [close |-> orch.close[orch.symbols[orch.i]],
                           position |-> position,
                           bb_lower |-> bb.lower, bb_upper |-> bb.upper,
                           atr |-> atr, fails |-> fails]))
    /\ UNCHANGED <<variant, inv, acct, cyc, sig, siz, bt>>

\* bot.py 200 and the next pass of `while True`: four hours later the last
\* candle is the same daily candle, with another close and whatever
\* transition the fresh series gives it, or a new one.
MainSleep ==
    /\ orch.pc = "sleep" /\ orch.n < MaxIterations
    /\ \E close \in [Tradable -> MainPrices], same \in BOOLEAN :
          orch' = MainStart(orch.n + 1, orch.accts, close,
                            IF same THEN Bought(orch) ELSE NotBought)
    /\ UNCHANGED <<variant, inv, acct, cyc, sig, siz, bt>>

NextMain ==
    \/ MainGetSymbols \/ MainFilterVolume \/ MainFilterVolatility
    \/ MainGetDataRaises \/ MainExecuteTrades \/ MainExecuteAdvancedTrades
    \/ MainSleep

SpecMain == InitMain /\ [][NextMain]_vars

(***************************************************************************)
(* Claims about safe_api_call.                                             *)
(***************************************************************************)

\* C1: when the operation fails exactly k < max_retries times and then
\* succeeds (max_retries >= 1), the invoker never raises; while it runs it has
\* slept once per failed call; and when it has returned it returns the
\* operation's value after exactly k+1 calls and exactly k sleeps (k delays).
C1_FailsThenSucceeds ==
    (~inv.always /\ inv.max_retries >= 1 /\ inv.fails < inv.max_retries) =>
        /\ inv.pc # "raised"
        /\ inv.pc = "loop" => /\ inv.calls <= inv.fails
                              /\ inv.sleeps = inv.calls
        /\ inv.pc = "returned" => /\ inv.result = inv.value
                                  /\ inv.calls = inv.fails + 1
                                  /\ inv.sleeps = inv.fails
                                  /\ inv.slept = inv.fails * inv.delay

C1_Witness ==
    /\ inv.pc = "returned" /\ ~inv.always
    /\ inv.max_retries = DEFAULT_MAX_RETRIES
    /\ inv.fails = 3 /\ inv.calls = 4 /\ inv.sleeps = 3

\* C2: when the operation fails on every call, the invoker never makes more
\* than max_retries calls and never returns, and it ends by raising the error
\* that carries max_retries after exactly max_retries calls.
C2_AlwaysFailsExhausts ==
    /\ [](inv.always =>
            /\ inv.calls <= inv.max_retries
            /\ inv.pc # "returned"
            /\ inv.pc = "raised" => /\ inv.calls = inv.max_retries
                                    /\ inv.exc_retries = inv.max_retries)
    /\ (inv.always ~> inv.pc = "raised")

C2_Witness ==
    /\ inv.pc = "raised" /\ inv.always
    /\ inv.max_retries = DEFAULT_MAX_RETRIES
    /\ inv.calls = DEFAULT_MAX_RETRIES /\ inv.exc_retries = DEFAULT_MAX_RETRIES

(***************************************************************************)
(* Claims about execute_trades / execute_advanced_trades.                  *)
(***************************************************************************)
Sides(orders) == {orders[i].side : i \in 1..Len(orders)}

\* C3: one evaluation of the handler for a symbol places at most one order
\* (market buy or market sell) with the venue.
C3_AtMostOneOrder == Len(cyc.orders) <= 1

C3_Witness ==
    /\ cyc.n > 0 /\ cyc.has_stop
    /\ FCmp(PriceFloat(cyc.current_price), cyc.stop_loss_price) <= 0
    /\ cyc.position = 0 - 1
    /\ Len(cyc.orders) = 1 /\ cyc.orders[1].side = "SELL"

\* C4: in a cycle that read holdings > 0 and computed a stop-loss price at or
\* above the current price, whatever the last candle's transition is, no order
\* but a market sell of the full quantity read is placed, and that sell is
\* placed unless the sell call itself raised; with entry 100 and price 90 the
\* stop-loss price is 95.
C4_StopLossPrecedence ==
    (cyc.n > 0 /\ RatPos(cyc.current_qty) /\ cyc.has_stop
        /\ FCmp(PriceFloat(cyc.current_price), cyc.stop_loss_price) <= 0) =>
        /\ \/ cyc.orders = <<[side |-> "SELL", quantity |-> cyc.current_qty]>>
           \/ cyc.orders = <<>> /\ cyc.raised
        /\ (cyc.purchase_price = 10000 /\ cyc.current_price = 9000) =>
               cyc.stop_loss_price = PriceFloat(9500)

C4_Witness ==
    /\ cyc.n > 0 /\ cyc.has_stop /\ cyc.position = 1
    /\ cyc.purchase_price = 10000 /\ cyc.current_price = 9000
    /\ cyc.stop_loss_price = PriceFloat(9500)
    /\ cyc.orders = <<[side |-> "SELL", quantity |-> cyc.current_qty]>>

\* C5 (as claimed): no market buy is placed in a cycle that began with the
\* account holding a positive quantity of the base asset, whatever the
\* holdings query answered.
C5_NoBuyWhileLong ==
    (cyc.n > 0 /\ RatPos(cyc.held)) => "BUY" \notin Sides(cyc.orders)

\* C6 (as claimed): while one position stays open with the same entry price,
\* the stop-loss price of a cycle is never below that of the cycle before,
\* whatever the current prices of the two cycles are.
C6_StopNeverLoosens ==
    (cyc.has_stop /\ cyc.before.open
        /\ cyc.purchase_price = cyc.before.purchase_price) =>
        FCmp(cyc.stop_loss_price, cyc.before.stop_loss_price) >= 0

\* C7: baseline, same entry price, two successive cycles with current prices
\* p1 <= p2: the stop-loss price of the second is at least that of the first.
C7_BaselineStopMonotoneInPrice ==
    (variant = "baseline" /\ cyc.has_stop /\ cyc.before.open
        /\ cyc.purchase_price = cyc.before.purchase_price
        /\ cyc.before.current_price <= cyc.current_price) =>
        FCmp(cyc.stop_loss_price, cyc.before.stop_loss_price) >= 0

\* The second cycle's trailing stop 109.89 is above the first cycle's 108.90.
C7_Witness ==
    /\ variant = "baseline" /\ cyc.has_stop /\ cyc.before.open
    /\ cyc.purchase_price = 10000 /\ cyc.before.purchase_price = 10000
    /\ cyc.before.current_price = 11000 /\ cyc.current_price = 11100
    /\ cyc.before.stop_loss_price = FromCents(10890)
    /\ cyc.stop_loss_price = FromCents(10989)

\* C8 (as claimed): advanced, same entry price, successive cycles at
\* non-decreasing current price: the stop-loss price does not decrease,
\* whatever the latest ATR is in each cycle.
C8_AdvancedStopMonotoneInPrice ==
    (variant = "advanced" /\ cyc.has_stop /\ cyc.before.open
        /\ cyc.purchase_price = cyc.before.purchase_price
        /\ cyc.before.current_price <= cyc.current_price) =>
        FCmp(cyc.stop_loss_price, cyc.before.stop_loss_price) >= 0

(***************************************************************************)
(* Claims about the signal engine.                                         *)
(***************************************************************************)
\* The orders the signal branch of the running variant places for a last row
\* of the given close and transition, over the holdings and the Bollinger
\* bands the model draws, when every call to the venue succeeds.
SignalOrders(close, position) ==
    UNION {
        LET in == [close |-> close, position |-> position,
                   bb_lower |-> bb.lower, bb_upper |-> bb.upper,
                   usdt |-> 100000,
                   fails |-> [e \in Endpoints |-> 0]]
            l == [Locals0(in) EXCEPT !.current_qty = q]
        IN  Sides(IF variant = "baseline" THEN SignalBranch(l, in).orders
                  ELSE AdvancedSignalBranch(l, in).orders) :
        q \in Holdings, bb \in Bands(close, 1) }

\* C9: for a series with fewer candles than SMA_LONG the strategy (baseline or
\* advanced) yields a signal and a transition for every row, the signal is 0 in
\* every row, no row has a transition of +1 or -1, and the signal branch of
\* the handler places no order for the last row.
C9_ShortSeriesHolds ==
    (sig.pc = "applied" /\ Len(sig.close) < SMA_LONG) =>
        /\ Len(sig.signal) = Len(sig.close)
        /\ Len(sig.position) = Len(sig.close)
        /\ \A k \in 1..Len(sig.close) :
              /\ sig.signal[k] = 0
              /\ sig.position[k] \notin {1, 0 - 1}
        /\ SignalOrders(sig.close[Len(sig.close)],
                        sig.position[Len(sig.close)]) = {}

\* 199 rising closes under an oversold RSI: SMA_short is defined and the RSI
\* filter passes, only SMA_long is missing.
C9_Witness ==
    /\ sig.pc = "applied" /\ variant = "advanced"
    /\ Len(sig.close) = SMA_LONG - 1
    /\ sig.close[1] < sig.close[2]
    /\ sig.rsi[Len(sig.rsi)] < RSI_THRESHOLD_BUY
    /\ sig.position[Len(sig.position)] = 0

(***************************************************************************)
(* C10: for every positive price and step size, the quantity returned by   *)
(* calculate_trade_qty (main.py) is a multiple of the step size, is at     *)
(* most fixed_amount / price, and is the largest such multiple: the next   *)
(* multiple of the step is above fixed_amount / price.                     *)
(***************************************************************************)
C10_FlooredToStep ==
    siz.pc = "returned" =>
        LET step8 == siz.step[1] * 10^(8 - siz.step[2])
            \* fixed_amount / price, times price's digits, in units of 10^-8
            limit == BMul(BFromInt(siz.fixed_amount), BPow10(8 + siz.price[2]))
            Cost(qty) == BMul(BFromInt(qty), BFromInt(siz.price[1]))
        IN  /\ siz.trade_qty % step8 = 0
            /\ BCmp(Cost(siz.trade_qty), limit) <= 0
            /\ BCmp(Cost(siz.trade_qty + step8), limit) > 0

(***************************************************************************)
(* C11: the quantity the baseline handler passes to the market buy is      *)
(* floored to the venue's quantity step: it is a multiple of the symbol's  *)
(* step size and at most balance * TRADE_PERCENTAGE / price.               *)
(***************************************************************************)
C11_FractionFlooredToStep ==
    \A i \in 1..Len(cyc.orders) :
        (variant = "baseline" /\ cyc.orders[i].side = "BUY") =>
            LET qty == cyc.orders[i].quantity
            IN  /\ (qty[1] * 10^HandlerStepSize[2])
                       % (qty[2] * HandlerStepSize[1]) = 0
                /\ qty[1] * 100 * cyc.current_price
                       <= qty[2] * cyc.balance * TRADE_PERCENTAGE

(***************************************************************************)
(* Claims about the backtest.                                              *)
(***************************************************************************)
\* The rows where SMA_short is above SMA_long.
RowsAbove(close) ==
    {k \in 1..Len(close) :
        MeanGt(sma_indicator(close, SMA_SHORT)[k], SMA_SHORT,
               sma_indicator(close, SMA_LONG)[k], SMA_LONG)}
StrictlyIncreasing(close) ==
    \A k \in 2..Len(close) : close[k - 1] < close[k]
Transitions(position, t) == {k \in 1..Len(position) : position[k] = t}

\* C12: for the series of 250 closes rising linearly from 100 to 350, the
\* Enter transition is at the first row where SMA_short is above SMA_long,
\* and the backtest from a balance of 10,000 returns a profit strictly
\* greater than 0.
C12_RisingBacktestProfits ==
    (bt.pc = "returned" /\ bt.shape = "linear" /\ Len(bt.close) = 250) =>
        /\ RowsAbove(bt.close) # {}
        /\ Transitions(bt.position, 1) =
               {CHOOSE k \in RowsAbove(bt.close) :
                   \A j \in RowsAbove(bt.close) : k <= j}
        /\ bt.profit.sign = 1

\* C13: for every strictly increasing series with at least SMA_LONG closes,
\* the transition column has exactly one +1 and no -1, and the replay row by
\* row from no holdings buys exactly once and never sells: there is at most
\* one buy at any time, a quantity is held from the buy on, and the run ends
\* with exactly one buy.
C13_IncreasingSeriesOneEntry ==
    (bt.pc # "idle" /\ StrictlyIncreasing(bt.close)
        /\ Len(bt.close) >= SMA_LONG) =>
        /\ Cardinality(Transitions(bt.position, 1)) = 1
        /\ Transitions(bt.position, 0 - 1) = {}
        /\ bt.sells = 0
        /\ bt.buys <= 1
        /\ (bt.buys = 1 <=> FPos(bt.trade_qty))
        /\ (bt.row = Len(bt.close) => bt.buys = 1)

C13_Witness ==
    /\ bt.pc = "returned" /\ StrictlyIncreasing(bt.close)
    /\ Len(bt.close) > SMA_LONG
    /\ bt.buys = 1 /\ bt.sells = 0 /\ FPos(bt.trade_qty)

(***************************************************************************)
(* Claims about main's loop.                                               *)
(***************************************************************************)
\* C14: when a remote call made during an iteration of main runs out of
\* retries (exchange info, ticker, candles, balance, own trades, symbol
\* rules, order placement), the error leaves main's loop: the process has
\* ended, so no later symbol is processed, no order is submitted afterwards
\* and no further iteration starts.
C14_ExhaustedRetriesFatal ==
    orch.exhausted => orch.pc = "raised"

ScreenFetches ==
    {j \in 1..Len(orch.calls) :
        orch.calls[j].op = "klines" /\ orch.calls[j].phase = "screen"}
TickerCalls == {k \in 1..Len(orch.calls) : orch.calls[k].op = "ticker"}

\* C15: in every iteration all ticker calls of the liquidity filter come
\* before any candle fetch of the volatility filter (every USDT-quoted
\* TRADING symbol has had its ticker call by then and none follows), and a
\* series is fetched in screening only for a symbol that is USDT-quoted, has
\* status TRADING and whose ticker reported a quote volume >= MIN_VOLUME.
C15_LiquidityBeforeVolatility ==
    \A j \in ScreenFetches :
        /\ \A k \in TickerCalls : k < j
        /\ Cardinality(TickerCalls) = Len(SymbolsOf(ExchangeInfo))
        /\ IsUsdtTrading(InfoOf(orch.calls[j].symbol))
        /\ \E k \in TickerCalls :
              /\ orch.calls[k].symbol = orch.calls[j].symbol
              /\ ~IsNaN(orch.calls[k].volume)
              /\ orch.calls[k].volume >= MIN_VOLUME

\* A series was fetched in screening for one symbol and, its ticker having
\* reported too small a volume, not for another.
C15_Witness ==
    /\ ScreenFetches # {}
    /\ \E k \in TickerCalls :
          /\ orch.calls[k].volume = MIN_VOLUME - 1
          /\ \A j \in ScreenFetches :
                orch.calls[j].symbol # orch.calls[k].symbol

\* The price of the account's last own trade (0 without trades).
LastTradePrice(a) == IF a.trades = <<>> THEN 0 ELSE a.trades[Len(a.trades)]
\* The close is at or below the stop-loss price the variant computes for it.
AtStopLoss(purchase_price, close) ==
    IF variant = "baseline"
    THEN StopLossHit(close, StopLossPriceOf(purchase_price, close))
    ELSE \A atr \in ATRs :
            StopLossHit(close,
                        TrailingStopLossOf(purchase_price, close, atr))

\* C16: in every iteration of main that completes without a fatal error, for
\* every symbol of which the account held a positive quantity and whose
\* latest close is at or below the position's stop-loss price, a market sell
\* of the full quantity was submitted in that iteration, whatever the
\* symbol's quote volume and volatility are now.
C16_StopLossEveryOpenPosition ==
    orch.pc = "sleep" =>
        \A s \in Tradable :
            (RatPos(orch.start[s].holdings)
                /\ AtStopLoss(LastTradePrice(orch.start[s]), orch.close[s])) =>
                \E k \in 1..Len(orch.orders) :
                    orch.orders[k] = [symbol |-> s, side |-> "SELL",
                                      quantity |-> orch.start[s].holdings]

\* C17: over the iterations that see the same candle as the last candle of a
\* symbol's series, at most one buy is submitted for the symbol: no
\* iteration buys a symbol that an earlier iteration on the same candle
\* bought, also when a stop-loss sell came between.
C17_OneBuyPerCandle ==
    \A k \in 1..Len(orch.orders) :
        orch.orders[k].side = "BUY" => ~orch.bought[orch.orders[k].symbol]

(***************************************************************************)
(* Claims about the advanced signal and the stop-loss condition.           *)
(***************************************************************************)
\* The sides of the orders the signal branch places for a last row with the
\* given transition, over the closes, holdings and bands the model draws.
TransitionOrders(position) ==
    UNION {SignalOrders(close, position) : close \in Prices}

\* C18: in the advanced variant, for every candle t after the first, the
\* transition is +1 exactly when signal[t] is Enter (1) and signal[t-1] is
\* not, and -1 exactly when signal[t] is Exit (-1) and signal[t-1] is not;
\* so with t as the last candle the signal branch buys only when signal[t] is
\* Enter and sells only when it is Exit, and every change of the signal into
\* Enter or into Exit gives the matching transition.
C18_TransitionMatchesSignal ==
    (sig.pc = "applied" /\ variant = "advanced") =>
        \A t \in 2..Len(sig.close) :
            /\ sig.position[t] = 1
                  <=> (sig.signal[t] = 1 /\ sig.signal[t - 1] # 1)
            /\ sig.position[t] = 0 - 1
                  <=> (sig.signal[t] = 0 - 1 /\ sig.signal[t - 1] # 0 - 1)
            /\ "BUY" \in TransitionOrders(sig.position[t])
                  => sig.signal[t] = 1
            /\ "SELL" \in TransitionOrders(sig.position[t])
                  => sig.signal[t] = 0 - 1

\* The quantity the handler read is positive and the close is at or below
\* the entry price it read less STOP_LOSS_PERCENTAGE.
BelowEntryStop ==
    /\ RatPos(cyc.current_qty)
    /\ cyc.current_price * 100
          <= cyc.purchase_price * (100 - STOP_LOSS_PERCENTAGE)

\* C19 (as claimed): in both variants, for every close > 0 and every entry
\* price >= 0 a cycle takes the stop-loss sell branch (it computed a
\* stop-loss price at or above the close) if and only if the holdings read
\* are > 0 and the close is at or below
\* entry_price * (1 - STOP_LOSS_PERCENTAGE); a stop-loss price above the
\* initial one, the trailing term, is strictly below the close.
C19_StopLossIffBelowEntryStop ==
    cyc.n > 0 =>
        /\ (cyc.has_stop
              /\ FCmp(PriceFloat(cyc.current_price), cyc.stop_loss_price) <= 0)
              <=> BelowEntryStop
        /\ (cyc.has_stop
              /\ FCmp(cyc.stop_loss_price,
                      InitialStopLoss(PriceFloat(cyc.purchase_price))) > 0) =>
              FCmp(cyc.stop_loss_price, PriceFloat(cyc.current_price)) < 0

====
